---------------------------- MODULE Spec2Model ----------------------------
(***************************************************************************)
(* Insights cache and generation pipeline of the LinkedIn data dashboard:  *)
(* utils/cache_manager.py, utils/ai_generator.py, utils/config.py and the  *)
(* orchestration written inline in pages/01_AI_Insights.py.                *)
(*                                                                         *)
(* Python strings are sequences of code points (naturals), so that         *)
(* sorted(), '|'.join(), str.strip() and json.dumps() are computed and not *)
(* assumed.                                                                *)
(***************************************************************************)
EXTENDS Naturals, Sequences, FiniteSets, TLC

VARIABLES
    reqA, reqB,        \* two key-derivation requests (category, authors, filters)
    keyA, keyB,        \* the keys _get_cache_key returned for them, or NoKey
    files,             \* the cache directory: derived key -> state of <key>.json
    load_req,          \* arguments of a direct load_insights call
    load_res,          \* what that call did: returned a value, or raised
    env_key,           \* os.getenv("GOOGLE_API_KEY")
    session_key,       \* st.session_state.gemini_api_key
    clock,             \* datetime.now(), one tick per script run
    pc,                \* where the insights page's script is
    selected_authors,  \* sidebar multiselect of this run
    cats,              \* categories_to_analyze of this run
    idx,               \* position of the loop over cats (1-based)
    top_posts,         \* top_posts of the current category (row labels)
    client,            \* the generator's client of this pass, or PyNone
    insights,          \* the page's insights variable in this pass
    outcome,           \* how the current / last pass ended
    displayed,         \* the Insight handed to the render functions
    trace,             \* what the current / last pass has called so far
    files_at_start,    \* files when the current / last pass began
    remote_calls,      \* generate_content calls made so far, per request
    first_saved,       \* per request: first Insight saved since the last clear
    call_op,           \* the last direct call of a CacheManager / generator method
    call_arg,          \* its arguments
    call_res,          \* what it did: returned a value, or raised
    store_before,      \* files before that call
    store_hist,        \* per cache file: what the calls so far did to it
    ops                \* number of direct calls made so far

keyVars == <<reqA, reqB, keyA, keyB>>
loadVars == <<load_req, load_res>>
credVars == <<env_key, session_key>>
runVars == <<clock, selected_authors, cats, idx>>
passVars == <<top_posts, client, insights, outcome, displayed, trace, files_at_start>>
histVars == <<remote_calls, first_saved>>
pageVars == <<credVars, pc, runVars, passVars, histVars>>
callVars == <<call_op, call_arg, call_res, store_before, store_hist, ops>>

vars == <<keyVars, loadVars, files, pageVars, callVars>>

-----------------------------------------------------------------------------
(* Bounds: string and list lengths of the inputs, number of script runs *)

MaxCatLen == 2
MaxAuthorLen == 1
MaxAuthors == 2
MaxRuns == 2
MaxCredRuns == 1
MaxKeyLen == 2
MaxStoreOps == 2
MaxPostsRuns == 1
MaxGenCalls == 1

(* Code points *)
PIPE == 124
SPACE == 32
LetterA == 97
LetterB == 98
LetterC == 99
LetterE == 101
LetterS == 115

\* An optional dict argument: Python's None, or a dict given by its items
None == [present |-> FALSE, items |-> <<>>]
Dict(items) == [present |-> TRUE, items |-> items]
NoKey == [nokey |-> TRUE]

-----------------------------------------------------------------------------
(* Python string primitives *)

RECURSIVE StrLess(_, _)
StrLess(s, t) ==
    IF t = <<>> THEN FALSE
    ELSE IF s = <<>> THEN TRUE
    ELSE IF Head(s) # Head(t) THEN Head(s) < Head(t)
    ELSE StrLess(Tail(s), Tail(t))

RECURSIVE Insert(_, _)
Insert(x, l) ==
    IF l = <<>> THEN <<x>>
    ELSE IF StrLess(x, Head(l)) THEN <<x>> \o l
    ELSE <<Head(l)>> \o Insert(x, Tail(l))

RECURSIVE sorted(_)
sorted(l) == IF l = <<>> THEN <<>> ELSE Insert(Head(l), sorted(Tail(l)))

RECURSIVE join(_, _)
join(sep, l) ==
    IF l = <<>> THEN <<>>
    ELSE IF Len(l) = 1 THEN Head(l)
    ELSE Head(l) \o sep \o join(sep, Tail(l))

-----------------------------------------------------------------------------
(* json.dumps(additional_filters, sort_keys=True).  A filter dict is the   *)
(* sequence of its <<key, value>> items in insertion order (keys distinct, *)
(* keys are strings, values are one-digit integers).                       *)

RECURSIVE InsertItem(_, _)
InsertItem(x, l) ==
    IF l = <<>> THEN <<x>>
    ELSE IF StrLess(x[1], Head(l)[1]) THEN <<x>> \o l
    ELSE <<Head(l)>> \o InsertItem(x, Tail(l))

RECURSIVE SortKeys(_)
SortKeys(d) == IF d = <<>> THEN <<>> ELSE InsertItem(Head(d), SortKeys(Tail(d)))

\* one item: "key": value      (34 is '"', 58 ':', 32 ' ', 48 '0')
DumpItem(it) == <<34>> \o it[1] \o <<34, 58, 32>> \o <<48 + it[2]>>

RECURSIVE DumpItems(_)
DumpItems(d) ==
    IF d = <<>> THEN <<>>
    ELSE IF Len(d) = 1 THEN DumpItem(Head(d))
    ELSE DumpItem(Head(d)) \o <<44, 32>> \o DumpItems(Tail(d))    \* ", "

json_dumps_sort_keys(d) == <<123>> \o DumpItems(SortKeys(d)) \o <<125>>   \* { }

\* Python truthiness of the additional_filters argument: None and {} are falsy
FiltersTruthy(f) == f.present /\ f.items # <<>>

\* hashlib.md5(...).hexdigest(), taken as injective on its input
md5_hexdigest(s) == [md5 |-> s]

-----------------------------------------------------------------------------
(* CacheManager._get_cache_key *)

\* (the same without sorted(): what a caller-order-dependent key would be)
FilterStrUnsorted(category, authors, additional_filters) ==
    LET base == category \o <<PIPE>> \o join(<<PIPE>>, authors)
    IN  IF FiltersTruthy(additional_filters)
        THEN base \o <<PIPE>> \o json_dumps_sort_keys(additional_filters.items)
        ELSE base

FilterStr(category, authors, additional_filters) ==
    LET base == category \o <<PIPE>> \o join(<<PIPE>>, sorted(authors))
    IN  IF FiltersTruthy(additional_filters)
        THEN base \o <<PIPE>> \o json_dumps_sort_keys(additional_filters.items)
        ELSE base

_get_cache_key(category, authors, additional_filters) ==
    md5_hexdigest(FilterStr(category, authors, additional_filters))

-----------------------------------------------------------------------------
(* Input domains of the key derivation *)

Alphabet == {LetterA, PIPE}

\* non-empty strings over Alphabet of length at most n
StrsUpTo(n) == UNION {[1..k -> Alphabet] : k \in 1..n}

CategoryStrs == StrsUpTo(MaxCatLen)
AuthorStrs == StrsUpTo(MaxAuthorLen)
AuthorLists == UNION {[1..k -> AuthorStrs] : k \in 0..MaxAuthors}

ItemX == <<(<<120>>), 1>>       \* "x": 1
ItemY == <<(<<121>>), 1>>       \* "y": 1
FilterChoices ==
    {None, Dict(<<>>), Dict(<<ItemX>>), Dict(<<ItemY>>),
     Dict(<<ItemX, ItemY>>), Dict(<<ItemY, ItemX>>)}

KeyRequests == [category : CategoryStrs, authors : AuthorLists, filters : FilterChoices]

\* the mapping a filters argument denotes (absent counts as the empty map)
FilterMap(f) == {f.items[i] : i \in 1..Len(f.items)}

\* the multiset of a list, as the number of occurrences of each element
Count(l, x) == Cardinality({i \in 1..Len(l) : l[i] = x})
IsPermutation(l, m) ==
    /\ Len(l) = Len(m)
    /\ \A i \in 1..Len(l) : Count(l, l[i]) = Count(m, l[i])

AuthorSet(l) == {l[i] : i \in 1..Len(l)}

SameRequest(a, b) ==
    /\ a.category = b.category
    /\ IsPermutation(a.authors, b.authors)
    /\ FilterMap(a.filters) = FilterMap(b.filters)

DifferentRequest(a, b) ==
    \/ a.category # b.category
    \/ AuthorSet(a.authors) # AuthorSet(b.authors)
    \/ FilterMap(a.filters) # FilterMap(b.filters)

-----------------------------------------------------------------------------
(* What the page passes to the cache: a category of the data and the       *)
(* authors picked in the sidebar multiselect, in the order picked.         *)

CatA == <<LetterA>>                        \* "a"
CatAB == <<LetterA, PIPE, LetterB>>        \* "a|b"
AuthB == <<LetterB>>                       \* "b"
AuthC == <<LetterC>>                       \* "c"

all_categories == {CatA, CatAB}
AuthorSelections == {<<AuthC>>, <<AuthB, AuthC>>, <<AuthC, AuthB>>}

OrchRequests == [category : all_categories, authors : AuthorSelections]

StoreKeys == {_get_cache_key(r.category, r.authors, None) : r \in OrchRequests}

-----------------------------------------------------------------------------
(* The cache directory.  A file is missing, or holds a complete entry      *)
(* (kind "entry", data = the document json.dump wrote), or is in one of    *)
(* the states a text file can be in otherwise:                             *)
(*   "empty"      zero bytes (just opened with mode "w")                   *)
(*   "truncated"  a prefix of a document: valid UTF-8, invalid JSON        *)
(*   "badutf8"    bytes that are not valid UTF-8                           *)
(*   "unreadable" open() fails with PermissionError                        *)

NoData == [nodata |-> TRUE]
PyNone == [pynone |-> TRUE]

File(kind, data) == [kind |-> kind, data |-> data]
Missing == File("missing", NoData)

\* a Python call's outcome: a returned value or an exception that left the call
Return(v) == [raised |-> FALSE, exc |-> "", value |-> v]
Raise(e) == [raised |-> TRUE, exc |-> e, value |-> PyNone]
NoResult == [raised |-> FALSE, exc |-> "not called", value |-> PyNone]

get_cache_file(fs, cache_key) == fs[cache_key]

(* open(cache_file, "r", encoding="utf-8") and json.load(f) inside          *)
(* try/except (json.JSONDecodeError, IOError).  UnicodeDecodeError is a    *)
(* ValueError that is neither, so it leaves load_insights.                 *)
ReadJson(f) ==
    IF f.kind = "unreadable" THEN Return(PyNone)              \* IOError, caught
    ELSE IF f.kind = "badutf8" THEN Raise("UnicodeDecodeError")
    ELSE IF f.kind \in {"empty", "truncated"} THEN Return(PyNone)    \* JSONDecodeError, caught
    ELSE Return(f.data)

\* CacheManager.load_insights
load_insights(fs, category, authors, additional_filters) ==
    LET cache_file == get_cache_file(fs, _get_cache_key(category, authors, additional_filters))
    IN  IF cache_file.kind # "missing"          \* cache_file.exists()
        THEN ReadJson(cache_file)
        ELSE Return(PyNone)

-----------------------------------------------------------------------------
(* Credentials: utils/config.py and InsightsGenerator.__init__ *)

\* an optional string: Python's None (or a missing key), or a str
NoStr == [present |-> FALSE, str |-> <<>>]
Str(s) == [present |-> TRUE, str |-> s]

\* Python truthiness of an optional string: None and "" are falsy
StrTruthy(o) == o.present /\ o.str # <<>>

RECURSIVE lstrip(_)
lstrip(s) == IF s # <<>> /\ Head(s) = SPACE THEN lstrip(Tail(s)) ELSE s

RECURSIVE rstrip(_)
rstrip(s) ==
    IF s # <<>> /\ s[Len(s)] = SPACE THEN rstrip(SubSeq(s, 1, Len(s) - 1)) ELSE s

strip(s) == rstrip(lstrip(s))

\* config.get_gemini_api_key
get_gemini_api_key(session, env) ==
    IF session.present /\ StrTruthy(session) /\ strip(session.str) # <<>>
    THEN Str(strip(session.str))
    ELSE IF StrTruthy(env) /\ strip(env.str) # <<>>
         THEN Str(strip(env.str))
         ELSE NoStr

\* InsightsGenerator.__init__(api_key): api_key or os.getenv("GOOGLE_API_KEY")
InsightsGenerator_init(api_key, env) ==
    LET k == IF StrTruthy(api_key) THEN api_key ELSE env
    IN  IF ~StrTruthy(k)
        THEN Raise("ValueError")
        ELSE Return([api_key |-> k.str])        \* genai.Client(api_key=api_key)

\* the page's call site: InsightsGenerator(), no argument
NewGenerator(session, env) == InsightsGenerator_init(NoStr, env)

\* what the settings form and the environment can hold
KeyStrs(letter) == UNION {[1..k -> {SPACE, letter}] : k \in 0..MaxKeyLen}
EnvChoices == {NoStr} \cup {Str(s) : s \in KeyStrs(LetterE)}
api_key_inputs == KeyStrs(LetterS)

-----------------------------------------------------------------------------
(* InsightsGenerator.generate_insights *)

\* what client.models.generate_content does: a response text, or an exception
RemoteResponses ==
    {[kind |-> "text", text |-> "s1"], [kind |-> "text", text |-> "s2"],
     [kind |-> "text", text |-> ""], [kind |-> "error", text |-> ""]}

\* InsightsGenerator._prepare_posts_text: one block per row of top_posts, in
\* iterrows() order; idx is the row's label, post_num = idx + 1, and the rest
\* of the block is the row's author, engagement, category and text
_prepare_posts_text(posts) ==
    [k \in 1..Len(posts) |-> [post_num |-> posts[k] + 1, row |-> posts[k]]]

\* whether generate_insights reaches the remote call
CallsRemote(posts) == ~(Len(posts) < 1)

generate_insights(posts, category, response) ==
    IF Len(posts) < 1 THEN PyNone
    ELSE IF response.kind = "error" THEN PyNone         \* except Exception
    ELSE IF response.text = "" THEN PyNone              \* not summary_text
    ELSE [category |-> category, post_count |-> Len(posts),
          summary |-> response.text, posts_analyzed |-> posts]

-----------------------------------------------------------------------------
(* CacheManager.save_insights and clear_cache *)

\* (a document that keeps only the summary of the Insight)
cache_data_summary_only(cat, authors, additional_filters, now, ins) ==
    [category |-> cat, authors |-> authors,
     filters |-> IF FiltersTruthy(additional_filters) THEN additional_filters.items ELSE <<>>,
     generated_at |-> now, insights |-> [summary |-> ins.summary]]

cache_data(category, authors, additional_filters, now, ins) ==
    [category |-> category, authors |-> authors,
     filters |-> IF FiltersTruthy(additional_filters) THEN additional_filters.items ELSE <<>>,
     generated_at |-> now, insights |-> ins]

\* (save_insights without its try/except: the IOError leaves the call)
save_on_IOError_uncaught == Raise("IOError")

\* what save_insights does with an IOError of open() or of the write
save_on_IOError == Return(FALSE)

\* open(cache_file, "w"): the file exists and is empty from here on
OpenForWrite(fs, cache_key) == [fs EXCEPT ![cache_key] = File("empty", NoData)]

\* json.dump has written the whole document and the file is closed
WriteAll(fs, cache_key, data) == [fs EXCEPT ![cache_key] = File("entry", data)]

\* the write stopped with an IOError: a prefix of the document stays on disk,
\* cut anywhere, also inside a multi-byte character
PartialKinds == {"truncated", "badutf8"}
WritePart(fs, cache_key, kind) == [fs EXCEPT ![cache_key] = File(kind, NoData)]

\* (a clear that unlinks only the files that parse as an entry)
clear_cache_entries_only(fs) ==
    [k \in DOMAIN fs |-> IF fs[k].kind = "entry" THEN Missing ELSE fs[k]]

\* for file in cache_dir.glob("*.json"): file.unlink() -- whatever the file holds
clear_cache(fs) == [k \in DOMAIN fs |-> Missing]

-----------------------------------------------------------------------------
(* pages/01_AI_Insights.py: one script run is a loop of passes, one per    *)
(* category of the filtered data, all with the same selected authors.      *)

\* categories_to_analyze = sorted(filtered_data["primary_category"].unique())
CategoryBatches ==
    {sorted(l) : l \in {m \in UNION {[1..k -> all_categories] : k \in 1..2} :
                          \A i, j \in 1..Len(m) : i # j => m[i] # m[j]}}

\* category_data.nlargest(5, "engagement"): the rows keep their labels; a
\* category of categories_to_analyze has at least one row
TopPostsChoices == {<<0>>, <<2, 0>>}

NoSaved == [saved |-> FALSE]
NewTrace ==
    [loaded_hit |-> FALSE, constructed |-> FALSE, remote |-> FALSE,
     used_key |-> <<>>, gen_absent |-> FALSE, gen_ok |-> FALSE,
     save_called |-> FALSE, save_result |-> "none", write_failed |-> FALSE,
     after_save |-> FALSE]

category == cats[idx]
CurKey == _get_cache_key(category, selected_authors, None)

\* a request of the page up to the order of its authors
ReqId(cat, authors) == <<cat, AuthorSet(authors)>>
RequestIds == {ReqId(r.category, r.authors) : r \in OrchRequests}
CurReq == ReqId(category, selected_authors)

\* "if cached_insights:" / "if insights:" -- None and {} are falsy
Truthy(v) == v # PyNone

\* (a page that never takes the cached branch)
NeverTruthy(v) == FALSE

\* (a page that takes the cached branch only for an entry made from the
\* posts now selected)
IsHitForSamePosts(v) == Truthy(v) /\ v.insights.posts_analyzed = top_posts

\* "if cached_insights:" of the page
IsHit(v) == Truthy(v)

\* (a page that saves whatever generate_insights returned)
AlwaysHasInsights(v) == TRUE

\* "if insights:" after generate_insights
HasInsights(v) == Truthy(v)

PageIdle ==
    /\ pc = "idle"
    /\ clock = 0
    /\ selected_authors = <<>>
    /\ cats = <<>>
    /\ idx = 1
    /\ top_posts = <<>>
    /\ client = PyNone
    /\ insights = PyNone
    /\ outcome = "none"
    /\ displayed = PyNone
    /\ trace = NewTrace
    /\ files_at_start = [k \in StoreKeys |-> Missing]
    /\ remote_calls = [r \in RequestIds |-> 0]
    /\ first_saved = [r \in RequestIds |-> NoSaved]

CredIdle ==
    /\ env_key = NoStr
    /\ session_key = NoStr

\* (a page without the zero-post check)
NeverInsufficient(tp) == FALSE

\* "if len(top_posts) < 1:" of the page
InsufficientData(tp) == Len(tp) < 1

\* a pass begins: top_posts of the category i, one of choices, and the
\* zero-post check
StartPassOf(choices, cs, a, i, saved, fs) ==
    /\ \E tp \in choices :
          /\ top_posts' = tp
          /\ IF InsufficientData(tp)
             THEN outcome' = "insufficient" /\ pc' = "next"
             ELSE outcome' = "running" /\ pc' = "load"
    /\ client' = PyNone
    /\ insights' = PyNone
    /\ displayed' = PyNone
    /\ trace' = [NewTrace EXCEPT !.after_save = saved[ReqId(cs[i], a)] # NoSaved]
    /\ files_at_start' = fs

StartPass(cs, a, i, saved, fs) == StartPassOf(TopPostsChoices, cs, a, i, saved, fs)

\* a script run starts: the sidebar is read, the clear button, when pressed,
\* clears the cache, and the loop over the categories begins
RunStartOf(max_runs, choices) ==
    /\ pc = "idle"
    /\ clock < max_runs
    /\ \E clear \in BOOLEAN, a \in AuthorSelections, cs \in CategoryBatches :
          /\ selected_authors' = a
          /\ cats' = cs
          /\ files' = IF clear THEN clear_cache(files) ELSE files
          /\ first_saved' = IF clear THEN [r \in RequestIds |-> NoSaved] ELSE first_saved
          /\ StartPassOf(choices, cs, a, 1, first_saved', files')
    /\ clock' = clock + 1
    /\ idx' = 1
    /\ UNCHANGED <<keyVars, loadVars, callVars, credVars, remote_calls>>

RunStartUpTo(max_runs) == RunStartOf(max_runs, TopPostsChoices)

RunStart == RunStartUpTo(MaxRuns)

\* cache_manager.load_insights(category, selected_authors), outside any try
LoadStep ==
    /\ pc = "load"
    /\ LET r == load_insights(files, category, selected_authors, None)
       IN  IF r.raised
           THEN /\ outcome' = "crash"          \* the exception ends the script run
                /\ pc' = "idle"
                /\ UNCHANGED <<insights, displayed, trace>>
           ELSE /\ trace' = [trace EXCEPT !.loaded_hit = Truthy(r.value)]
                /\ IF IsHit(r.value)
                   THEN /\ insights' = r.value.insights
                        /\ displayed' = r.value.insights
                        /\ outcome' = "hit"
                        /\ pc' = "next"
                   ELSE /\ pc' = "construct"
                        /\ UNCHANGED <<insights, displayed, outcome>>
    /\ UNCHANGED <<keyVars, loadVars, callVars, credVars, runVars, histVars, files,
                   top_posts, client, files_at_start>>

\* generator = InsightsGenerator(), inside try / except Exception
ConstructStep ==
    /\ pc = "construct"
    /\ LET r == NewGenerator(session_key, env_key)
       IN  IF r.raised
           THEN /\ outcome' = "error"
                /\ pc' = "next"
                /\ UNCHANGED client
           ELSE /\ client' = r.value
                /\ pc' = "generate"
                /\ UNCHANGED outcome
    /\ trace' = [trace EXCEPT !.constructed = TRUE]
    /\ UNCHANGED <<keyVars, loadVars, callVars, credVars, runVars, histVars, files,
                   top_posts, insights, displayed, files_at_start>>

\* insights = generator.generate_insights(top_posts, category)
GenerateStep ==
    /\ pc = "generate"
    /\ \E response \in RemoteResponses :
          LET ins == generate_insights(top_posts, category, response)
          IN  /\ insights' = ins
              /\ trace' = [trace EXCEPT !.remote = CallsRemote(top_posts),
                                        !.used_key = client.api_key,
                                        !.gen_absent = (ins = PyNone),
                                        !.gen_ok = (ins # PyNone)]
              /\ IF HasInsights(ins)
                 THEN pc' = "save" /\ UNCHANGED outcome
                 ELSE pc' = "next" /\ outcome' = "failed"
    /\ remote_calls' = [remote_calls EXCEPT ![CurReq] =
                            IF CallsRemote(top_posts) THEN @ + 1 ELSE @]
    /\ UNCHANGED <<keyVars, loadVars, callVars, credVars, runVars, first_saved, files,
                   top_posts, client, displayed, files_at_start>>

\* what the page does once save_insights has returned or raised
AfterSave(r) ==
    /\ trace' = [trace EXCEPT !.save_called = TRUE,
                              !.write_failed = (r # Return(TRUE)),
                              !.save_result = IF r.raised THEN "raised"
                                              ELSE IF r.value THEN "True" ELSE "False"]
    /\ IF r.raised
       THEN outcome' = "error" /\ UNCHANGED displayed       \* except Exception
       ELSE outcome' = "fresh" /\ displayed' = insights
    /\ pc' = "next"

\* save_insights up to open(cache_file, "w"), which fails or truncates
SaveOpenStep ==
    /\ pc = "save"
    /\ \E opened \in BOOLEAN :
          IF opened
          THEN /\ files' = OpenForWrite(files, CurKey)
               /\ pc' = "write"
               /\ trace' = [trace EXCEPT !.save_called = TRUE]
               /\ UNCHANGED <<outcome, displayed>>
          ELSE /\ AfterSave(save_on_IOError)
               /\ UNCHANGED files
    /\ UNCHANGED <<keyVars, loadVars, callVars, credVars, runVars, histVars,
                   top_posts, client, insights, files_at_start>>

\* json.dump(cache_data, f), which completes or fails part-way
SaveWriteStep ==
    /\ pc = "write"
    /\ \E res \in {"complete"} \cup PartialKinds :
          IF res = "complete"
          THEN /\ files' = WriteAll(files, CurKey,
                              cache_data(category, selected_authors, None, clock, insights))
               /\ AfterSave(Return(TRUE))
               /\ first_saved' = [first_saved EXCEPT ![CurReq] =
                      IF @ = NoSaved
                      THEN [saved |-> TRUE, insight |-> insights, at |-> clock,
                            calls |-> remote_calls[CurReq]]
                      ELSE @]
          ELSE /\ files' = WritePart(files, CurKey, res)
               /\ AfterSave(save_on_IOError)
               /\ UNCHANGED first_saved
    /\ UNCHANGED <<keyVars, loadVars, callVars, credVars, runVars, remote_calls,
                   top_posts, client, insights, files_at_start>>

\* the loop goes to the next category, or the script run ends
NextCategoryOf(choices) ==
    /\ pc = "next"
    /\ IF idx < Len(cats)
       THEN /\ idx' = idx + 1
            /\ StartPassOf(choices, cats, selected_authors, idx + 1, first_saved, files)
       ELSE /\ idx' = idx
            /\ pc' = "idle"
            /\ UNCHANGED passVars
    /\ UNCHANGED <<keyVars, loadVars, callVars, credVars, clock, selected_authors, cats,
                   histVars, files>>

NextCategory == NextCategoryOf(TopPostsChoices)

-----------------------------------------------------------------------------
(* pages/02_Settings.py *)

\* the page is opened: the session key is initialised when not there
SessionInit(session) == IF session.present THEN session ELSE Str(<<>>)

SettingsOpen ==
    /\ pc = "idle"
    /\ ~session_key.present
    /\ session_key' = SessionInit(session_key)
    /\ UNCHANGED <<keyVars, loadVars, callVars, files, env_key, pc, runVars, passVars, histVars>>

\* "Save API Key" with the text input's value
SettingsSave ==
    /\ pc = "idle"
    /\ \E api_key_input \in api_key_inputs :
          session_key' = IF strip(api_key_input) # <<>>
                         THEN Str(strip(api_key_input))
                         ELSE SessionInit(session_key)
    /\ session_key' # session_key
    /\ UNCHANGED <<keyVars, loadVars, callVars, files, env_key, pc, runVars, passVars, histVars>>

\* "Clear API Key"
SettingsClear ==
    /\ pc = "idle"
    /\ session_key.present /\ session_key.str # <<>>
    /\ session_key' = Str(<<>>)
    /\ UNCHANGED <<keyVars, loadVars, callVars, files, env_key, pc, runVars, passVars, histVars>>

-----------------------------------------------------------------------------
(* Sample values and the resting state of each group of variables *)

SampleInsight ==
    [category |-> CatA, post_count |-> 1, summary |-> "s1", posts_analyzed |-> <<0>>]
SampleEntry ==
    [category |-> CatA, authors |-> <<AuthC>>, filters |-> <<>>,
     generated_at |-> 1, insights |-> SampleInsight]

FileStates ==
    {Missing, File("entry", SampleEntry), File("empty", NoData),
     File("truncated", NoData), File("badutf8", NoData), File("unreadable", NoData)}

LoadIdle ==
    /\ load_req = [category |-> CatA, authors |-> <<AuthC>>]
    /\ load_res = NoResult

KeyIdle ==
    /\ reqA = [category |-> CatA, authors |-> <<>>, filters |-> None]
    /\ reqB = reqA
    /\ keyA = NoKey
    /\ keyB = NoKey

\* what is known of a cache file that no call has written
Never == [state |-> "never"]

CallIdle ==
    /\ call_op = "none"
    /\ call_arg = NoData
    /\ call_res = NoResult
    /\ store_before = [k \in StoreKeys |-> Missing]
    /\ store_hist = [k \in StoreKeys |-> Never]
    /\ ops = 0

-----------------------------------------------------------------------------
(* Key derivation on its own: two requests, one call each *)

KeyInitPairs ==
    /\ reqA \in KeyRequests
    /\ reqB \in KeyRequests
    /\ keyA = NoKey
    /\ keyB = NoKey
    /\ files = [k \in StoreKeys |-> Missing]
    /\ LoadIdle
    /\ CredIdle
    /\ PageIdle
    /\ CallIdle

KeyInitSame ==
    /\ reqA \in KeyRequests
    /\ reqB = reqA
    /\ keyA = NoKey
    /\ keyB = NoKey
    /\ files = [k \in StoreKeys |-> Missing]
    /\ LoadIdle
    /\ CredIdle
    /\ PageIdle
    /\ CallIdle

DeriveKeys ==
    /\ keyA = NoKey
    /\ keyA' = _get_cache_key(reqA.category, reqA.authors, reqA.filters)
    /\ keyB' = _get_cache_key(reqB.category, reqB.authors, reqB.filters)
    /\ UNCHANGED <<reqA, reqB, files, loadVars, callVars, pageVars>>

\* the caller passes the same authors in another order
PermuteAuthors ==
    /\ keyA = NoKey
    /\ \E l \in AuthorLists :
          /\ l # reqB.authors
          /\ IsPermutation(reqA.authors, l)
          /\ reqB' = [reqB EXCEPT !.authors = l]
    /\ UNCHANGED <<reqA, keyA, keyB, files, loadVars, callVars, pageVars>>

\* the caller passes the same filter map built another way (or omits an empty one)
RebuildFilters ==
    /\ keyA = NoKey
    /\ \E f \in FilterChoices :
          /\ f # reqB.filters
          /\ FilterMap(f) = FilterMap(reqA.filters)
          /\ reqB' = [reqB EXCEPT !.filters = f]
    /\ UNCHANGED <<reqA, keyA, keyB, files, loadVars, callVars, pageVars>>

NextKeyPairs == DeriveKeys
NextKeySame == DeriveKeys \/ PermuteAuthors \/ RebuildFilters

SpecKeyPairs == KeyInitPairs /\ [][NextKeyPairs]_vars
SpecKeySame == KeyInitSame /\ [][NextKeySame]_vars

\* C1: two requests that differ in category, author set or filters get different keys
C1_DifferentRequestsDifferentKeys ==
    (keyA # NoKey /\ DifferentRequest(reqA, reqB)) => keyA # keyB

\* C2: two requests with the same category, the same authors in any order and
\* the same filter map (absent = empty) get the same key
C2_SameRequestSameKey ==
    (keyA # NoKey /\ SameRequest(reqA, reqB)) => keyA = keyB

C2_Witness ==
    /\ keyA # NoKey
    /\ SameRequest(reqA, reqB)
    /\ reqA.authors # reqB.authors
    /\ reqA.filters # reqB.filters
    /\ reqA.filters # None /\ reqB.filters # None

-----------------------------------------------------------------------------
(* load_insights on its own, over every state of the files *)

LoadInit ==
    /\ files \in [StoreKeys -> FileStates]
    /\ load_req \in OrchRequests
    /\ load_res = NoResult
    /\ KeyIdle
    /\ CredIdle
    /\ PageIdle
    /\ CallIdle

LoadCall ==
    /\ load_res = NoResult
    /\ load_res' = load_insights(files, load_req.category, load_req.authors, None)
    /\ UNCHANGED <<files, load_req, keyVars, pageVars, callVars>>

NextLoad == LoadCall
SpecLoad == LoadInit /\ [][NextLoad]_vars

LoadedFile == files[_get_cache_key(load_req.category, load_req.authors, None)]

\* C3: load_insights never raises; it returns the stored entry or absent, and
\* absent whenever the file cannot be read or parsed
C3_LoadNeverRaises ==
    load_res # NoResult =>
        /\ ~load_res.raised
        /\ IF LoadedFile.kind = "entry"
           THEN load_res.value = LoadedFile.data
           ELSE load_res.value = PyNone

-----------------------------------------------------------------------------
(* The CacheManager called directly: save_insights, load_insights,         *)
(* clear_cache and get_cache_info in any order, on a directory found in    *)
(* any state.                                                              *)

\* a file holding valid JSON that is not an object (a list, a string, null)
NonObject == [nonobject |-> TRUE]
\* the states the directory's files are found in; an empty file fails to
\* parse like a truncated one and stands with it
StoreFileStates ==
    (FileStates \ {File("empty", NoData)}) \cup {File("nonobject", NonObject)}

\* the Insight handed to save_insights, other than the one of SampleEntry
OtherInsight ==
    [category |-> CatAB, post_count |-> 2, summary |-> "s2", posts_analyzed |-> <<2, 0>>]
InsightChoices == {OtherInsight}

\* what the file system does with the write of save_insights
WriteOutcomes == {"complete", "open fails"} \cup PartialKinds

\* CacheManager.save_insights as one call: the files afterwards and the result
save_insights(fs, cat, authors, ins, now, outcome_of_write) ==
    LET cache_key == _get_cache_key(cat, authors, None)
    IN  IF outcome_of_write = "open fails"
        THEN [files |-> fs, res |-> save_on_IOError]
        ELSE IF outcome_of_write = "complete"
        THEN [files |-> WriteAll(OpenForWrite(fs, cache_key), cache_key,
                                 cache_data(cat, authors, None, now, ins)),
              res |-> Return(TRUE)]
        ELSE [files |-> WritePart(OpenForWrite(fs, cache_key), cache_key, outcome_of_write),
              res |-> save_on_IOError]

\* cache_dir.glob("*.json"): the files there are, in the order the directory
\* lists them, which is any order
Present(fs) == {k \in DOMAIN fs : fs[k].kind # "missing"}
GlobOrders(fs) ==
    {o \in [1..Cardinality(Present(fs)) -> Present(fs)] :
        \A i, j \in DOMAIN o : i # j => o[i] # o[j]}

\* the record get_cache_info appends for a document
InfoRecord(k, data) ==
    [filename |-> k, category |-> data.category, authors |-> data.authors,
     generated_at |-> data.generated_at]

\* the loop of get_cache_info over cache_files, from position i on
RECURSIVE InfoScan(_, _, _, _)
InfoScan(fs, cache_files, i, listed) ==
    IF i > Len(cache_files)
    THEN Return([total_cached |-> Len(cache_files), files |-> listed])
    ELSE LET f == fs[cache_files[i]]
         IN  IF f.kind = "unreadable"                       \* IOError: continue
             THEN InfoScan(fs, cache_files, i + 1, listed)
             ELSE IF f.kind = "badutf8"
             THEN Raise("UnicodeDecodeError")               \* not in the except clause
             ELSE IF f.kind \in {"empty", "truncated"}      \* JSONDecodeError: continue
             THEN InfoScan(fs, cache_files, i + 1, listed)
             ELSE IF f.kind = "nonobject"
             THEN Raise("AttributeError")                   \* data.get on a non-dict
             ELSE InfoScan(fs, cache_files, i + 1,
                           Append(listed, InfoRecord(cache_files[i], f.data)))

get_cache_info(fs, cache_files) == InfoScan(fs, cache_files, 1, <<>>)

StoreInit ==
    /\ files \in [StoreKeys -> StoreFileStates]
    /\ call_op = "none"
    /\ call_arg = NoData
    /\ call_res = NoResult
    /\ store_before = files
    /\ store_hist = [k \in StoreKeys |->
                        IF files[k] = Missing THEN Never ELSE [state |-> "found"]]
    /\ ops = 0
    /\ KeyIdle
    /\ LoadIdle
    /\ CredIdle
    /\ PageIdle

StoreSave ==
    /\ ops < MaxStoreOps
    /\ \E r \in OrchRequests, ins \in InsightChoices, w \in WriteOutcomes :
          LET out == save_insights(files, r.category, r.authors, ins, ops + 1, w)
              cache_key == _get_cache_key(r.category, r.authors, None)
          IN  /\ files' = out.files
              /\ call_arg' = [category |-> r.category, authors |-> r.authors,
                              insights |-> ins]
              /\ call_res' = out.res
              /\ store_hist' = [store_hist EXCEPT ![cache_key] =
                     IF w = "complete" THEN [state |-> "saved", insights |-> ins]
                     ELSE IF w = "open fails" THEN @
                     ELSE [state |-> "failed"]]
    /\ call_op' = "save"
    /\ store_before' = files
    /\ ops' = ops + 1
    /\ UNCHANGED <<keyVars, loadVars, pageVars>>

StoreClear ==
    /\ ops < MaxStoreOps
    /\ files' = clear_cache(files)
    /\ call_op' = "clear"
    /\ call_arg' = [prev_op |-> call_op, prev_before |-> store_before]
    /\ call_res' = Return(PyNone)
    /\ store_hist' = [k \in StoreKeys |-> [state |-> "cleared"]]
    /\ store_before' = files
    /\ ops' = ops + 1
    /\ UNCHANGED <<keyVars, loadVars, pageVars>>

StoreLoad ==
    /\ ops < MaxStoreOps
    /\ \E r \in OrchRequests :
          /\ call_arg' = r
          /\ call_res' = load_insights(files, r.category, r.authors, None)
    /\ call_op' = "load"
    /\ store_before' = files
    /\ ops' = ops + 1
    /\ UNCHANGED <<files, store_hist, keyVars, loadVars, pageVars>>

StoreInfo ==
    /\ ops < MaxStoreOps
    /\ \E cache_files \in GlobOrders(files) :
          /\ call_arg' = [cache_files |-> cache_files]
          /\ call_res' = get_cache_info(files, cache_files)
    /\ call_op' = "info"
    /\ store_before' = files
    /\ ops' = ops + 1
    /\ UNCHANGED <<files, store_hist, keyVars, loadVars, pageVars>>

NextStore == StoreSave \/ StoreClear \/ StoreLoad \/ StoreInfo
SpecStore == StoreInit /\ [][NextStore]_vars

\* C12: after clear_cache the directory holds no document of any kind and
\* load_insights returns absent for every request; clear_cache raises nothing,
\* and on a directory that holds nothing (so also right after a clear) it
\* changes nothing
C12_ClearEmptiesAndIsIdempotent ==
    call_op = "clear" =>
        /\ call_res = Return(PyNone)
        /\ \A k \in StoreKeys : files[k] = Missing
        /\ \A r \in OrchRequests :
              load_insights(files, r.category, r.authors, None) = Return(PyNone)
        /\ Present(store_before) = {} => files = store_before
        /\ call_arg.prev_op = "clear" => files = store_before

C12_Witness ==
    /\ call_op = "clear"
    /\ call_arg.prev_op = "clear"
    /\ \E k \in StoreKeys : call_arg.prev_before[k].kind = "entry"
    /\ \E k \in StoreKeys : call_arg.prev_before[k].kind = "badutf8"
    /\ \E k \in StoreKeys : call_arg.prev_before[k].kind = "unreadable"

C15_InfoNeverAborts ==
    call_op = "info" =>
        /\ ~call_res.raised
        /\ Len(call_res.value.files) =
               Cardinality({k \in StoreKeys : files[k].kind = "entry"})
        /\ {call_res.value.files[i] : i \in 1..Len(call_res.value.files)} =
               {InfoRecord(k, files[k].data) : k \in {j \in StoreKeys : files[j].kind = "entry"}}

-----------------------------------------------------------------------------
(* The dashboard: the insights page and the settings page of one session   *)

\* the page's passes
PassSteps ==
    \/ LoadStep
    \/ ConstructStep
    \/ GenerateStep
    \/ SaveOpenStep
    \/ SaveWriteStep
    \/ NextCategory

(* The cache over several script runs.  The insights page never reads the  *)
(* session key, so the settings page is left to SpecCred.                  *)
Init ==
    /\ files = [k \in StoreKeys |-> Missing]
    /\ env_key \in {NoStr, Str(<<LetterE>>)}
    /\ session_key = NoStr
    /\ PageIdle
    /\ CallIdle
    /\ KeyIdle
    /\ LoadIdle

Next == RunStart \/ PassSteps

Spec == Init /\ [][Next]_vars

(* Credentials: the settings page and the insights page of one session,    *)
(* over every value of the environment variable and of the form input.     *)
InitCred ==
    /\ files = [k \in StoreKeys |-> Missing]
    /\ env_key \in EnvChoices
    /\ session_key = NoStr
    /\ PageIdle
    /\ CallIdle
    /\ KeyIdle
    /\ LoadIdle

CredRunStart == RunStartUpTo(MaxCredRuns)

NextCred ==
    \/ CredRunStart
    \/ PassSteps
    \/ SettingsOpen
    \/ SettingsSave
    \/ SettingsClear

SpecCred == InitCred /\ [][NextCred]_vars

(* The zero-post branch and the generator on its own.  The page's filters *)
(* leave every category of categories_to_analyze at least one row; here a  *)
(* pass may also be handed an empty selection, and generate_insights is    *)
(* also called directly, as a caller other than the page may.  A direct    *)
(* call reads and writes nothing of the page or the cache and the page     *)
(* nothing of the call, so a behaviour holds either direct calls or script *)
(* runs.                                                                   *)
AnyTopPosts == TopPostsChoices \cup {<<>>}

PostsRunStart ==
    /\ call_op = "none"
    /\ RunStartOf(MaxPostsRuns, AnyTopPosts)
PostsNextCategory == NextCategoryOf(AnyTopPosts)

\* generator.generate_insights(top_posts, category) called directly
GenerateCall ==
    /\ pc = "idle"
    /\ clock = 0
    /\ ops < MaxGenCalls
    /\ \E posts \in AnyTopPosts, c \in all_categories, response \in RemoteResponses :
          /\ call_arg' = [top_posts |-> posts, category |-> c]
          /\ call_res' = [value |-> generate_insights(posts, c, response),
                          remote |-> CallsRemote(posts),
                          posts_text |-> IF Len(posts) < 1 THEN <<>>
                                         ELSE _prepare_posts_text(posts)]
    /\ call_op' = "generate"
    /\ ops' = ops + 1
    /\ UNCHANGED <<store_before, store_hist, files, keyVars, loadVars, pageVars>>

NextPosts ==
    \/ PostsRunStart
    \/ LoadStep
    \/ ConstructStep
    \/ GenerateStep
    \/ SaveOpenStep
    \/ SaveWriteStep
    \/ PostsNextCategory
    \/ GenerateCall

SpecPosts == Init /\ [][NextPosts]_vars

-----------------------------------------------------------------------------
(* Properties of the cache files, the credentials and the passes *)

\* C4: in every reachable state, also in the middle of a save and after a save
\* that failed part-way, each cache file is absent or a complete entry
C4_NoPartialFiles ==
    \A k \in StoreKeys : files[k].kind \in {"missing", "entry"}

SessionSaved == session_key.present /\ strip(session_key.str) # <<>>

\* C5: with a non-empty session key saved in the settings page, the generation
\* call of the insights page uses that key, whatever the environment holds
C5_SessionKeyUsed ==
    (pc # "idle" /\ SessionSaved) =>
        /\ client # PyNone => client.api_key = strip(session_key.str)
        /\ trace.remote => trace.used_key = strip(session_key.str)

\* C6: with neither a session key nor an environment key that is non-empty after
\* trimming, constructing the generator fails: no client, no remote call
C6_NoCredentialFailsFast ==
    (pc # "idle" /\ trace.constructed /\ get_gemini_api_key(session_key, env_key) = NoStr) =>
        /\ client = PyNone
        /\ ~trace.remote
        /\ outcome = "error"

\* C7: a pass whose generation returned absent calls no save and leaves every
\* cache file as it was, so the same request misses again
C7_FailedGenerationNotCached ==
    trace.gen_absent =>
        /\ ~trace.save_called
        /\ files = files_at_start
        /\ outcome = "failed"
        /\ LET r == load_insights(files, category, selected_authors, None)
           IN  ~r.raised /\ ~Truthy(r.value)

C7_Witness ==
    /\ trace.gen_absent
    /\ trace.remote
    /\ pc = "next"
    /\ \E k \in StoreKeys : files[k].kind = "entry"

\* C8: a pass whose load returned an entry constructs no generator, makes no
\* remote call, calls no save and leaves the files as they were; the entry
\* still carries the generated_at of its save
C8_HitLeavesStoreAlone ==
    trace.loaded_hit =>
        /\ ~trace.constructed
        /\ client = PyNone
        /\ ~trace.remote
        /\ ~trace.save_called
        /\ files = files_at_start
        /\ outcome = "hit"
        /\ displayed = files[CurKey].data.insights
        /\ first_saved[CurReq] # NoSaved =>
               files[CurKey].data.generated_at = first_saved[CurReq].at

C8_Witness ==
    /\ trace.loaded_hit
    /\ first_saved[CurReq] # NoSaved
    /\ files[CurKey].data.generated_at < clock

\* C9: once a pass for a request has missed, generated and saved, every later
\* pass for the same category and authors (no clear in between) ends as a hit
\* showing that Insight, and the remote calls for the request stay as they were
C9_SavedInsightServedFromCache ==
    /\ \A r \in RequestIds :
          first_saved[r] # NoSaved => remote_calls[r] = first_saved[r].calls
    /\ (trace.after_save /\ pc \in {"next", "idle"}) =>
          /\ outcome = "hit"
          /\ displayed = first_saved[CurReq].insight

C9_Witness ==
    /\ trace.after_save
    /\ pc = "next"
    /\ outcome = "hit"
    /\ remote_calls[CurReq] = 1
    /\ files[CurKey].data.authors # selected_authors

C11_EveryCategoryProcessed ==
    /\ outcome # "crash"
    /\ (pc = "idle" /\ clock > 0) =>
          /\ idx = Len(cats)
          /\ outcome \in {"hit", "fresh", "failed", "error", "insufficient"}


\* C14: a pass whose top-posts selection is empty ends as insufficient data
\* without constructing or calling the generator and without touching the
\* cache; generate_insights called with an empty selection returns absent
\* without the remote call; so every Insight in a cache entry has a
\* post_count of at least 1 that is the length of its posts_analyzed
C14_NoPostsNoInsight ==
    /\ (clock > 0 /\ top_posts = <<>>) =>
          /\ outcome = "insufficient"
          /\ ~trace.constructed
          /\ client = PyNone
          /\ ~trace.remote
          /\ ~trace.save_called
          /\ insights = PyNone
          /\ displayed = PyNone
          /\ files = files_at_start
    /\ (call_op = "generate" /\ call_arg.top_posts = <<>>) =>
          /\ call_res.value = PyNone
          /\ ~call_res.remote
    /\ \A k \in StoreKeys :
          files[k].kind = "entry" =>
              /\ files[k].data.insights.post_count >= 1
              /\ files[k].data.insights.post_count =
                     Len(files[k].data.insights.posts_analyzed)

C14_Witness ==
    /\ clock > 0
    /\ top_posts = <<>>
    /\ outcome = "insufficient"
    /\ pc = "idle"
    /\ idx = 2
    /\ \E k \in StoreKeys : files[k].kind = "entry"


\* C16: for a selection of n rows, whatever their labels, the prompt holds n
\* blocks, one per row in the order of the selection, and the k-th block is
\* numbered k
C16_BlocksNumberedInOrder ==
    (call_op = "generate" /\ call_res.remote) =>
        /\ Len(call_res.posts_text) = Len(call_arg.top_posts)
        /\ \A k \in 1..Len(call_res.posts_text) :
              /\ call_res.posts_text[k].row = call_arg.top_posts[k]
              /\ call_res.posts_text[k].post_num = k


\* C17: whether a pass ends as a hit, and the Insight it then shows, are given
\* by load_insights of the category, the selected authors and the files at the
\* start of the pass; the top posts now selected play no part, so two passes
\* that differ only in them end alike
C17_HitIndependentOfTopPosts ==
    pc \notin {"idle", "load"} =>
        LET r == load_insights(files_at_start, category, selected_authors, None)
        IN  /\ ~r.raised
            /\ (IF Truthy(r.value) THEN outcome = "hit" ELSE outcome # "hit")
            /\ Truthy(r.value) =>
                  /\ insights = r.value.insights
                  /\ displayed = r.value.insights

C17_Witness ==
    /\ pc = "next"
    /\ outcome = "hit"
    /\ displayed.posts_analyzed # top_posts
    /\ displayed.post_count # Len(top_posts)

=============================================================================
